---------------------------- MODULE Spec2Model ----------------------------
(***************************************************************************)
(* Model of code/lanl-implementation/npts.c: the pipelined precomputation  *)
(* of the Thomas coefficients (precompute_beta_gam) and the two-sweep      *)
(* boundary-coupled solver (nonperiodic_tridiagonal_solver), run by a      *)
(* group of nprocs MPI workers.  The double arithmetic of the program is   *)
(* modelled exactly, by rationals <<numerator, denominator>> in lowest     *)
(* terms; <<0, 0>> stands for the content of a cell nobody has written.    *)
(***************************************************************************)
EXTENDS Integers, Sequences, FiniteSets, TLC

(* ------------------------------ bounds -------------------------------- *)
MaxP == 3        \* largest worker count explored
MaxN == 6        \* largest system_size explored
MaxRuns == 2     \* how many times the driver runs pipeline+solver

(* ------------------------- exact arithmetic --------------------------- *)
Abs(n) == IF n < 0 THEN -n ELSE n

RECURSIVE GCD(_, _)
GCD(a, b) == IF b = 0 THEN a ELSE GCD(b, a % b)

Undef == <<0, 0>>
Zero == <<0, 1>>
One == <<1, 1>>

IsDef(a) == a[2] # 0

\* In RNorm, RAdd, RNeg, RMul and RDiv each argument is bound to its value
\* once, then the operation is applied to the values.
NormV(n, d) ==
  IF d = 0 THEN Undef
  ELSE LET g == GCD(Abs(n), Abs(d))
           s == IF d < 0 THEN -1 ELSE 1
       IN  <<(s * n) \div g, (s * d) \div g>>
RNorm(n, d) == CHOOSE r \in {NormV(x, y) : x \in {n}, y \in {d}} : TRUE

\* a + b over the least common denominator
AddV(a, b) ==
  IF IsDef(a) /\ IsDef(b)
  THEN LET g == GCD(a[2], b[2]) IN
         RNorm(a[1] * (b[2] \div g) + b[1] * (a[2] \div g), (a[2] \div g) * b[2])
  ELSE Undef
RAdd(a, b) == CHOOSE r \in {AddV(x, y) : x \in {a}, y \in {b}} : TRUE

NegV(a) == IF IsDef(a) THEN <<-a[1], a[2]>> ELSE Undef
RNeg(a) == CHOOSE r \in {NegV(x) : x \in {a}} : TRUE
RSub(a, b) == RAdd(a, RNeg(b))

\* a * b, cancelling across before multiplying
MulV(a, b) ==
  IF IsDef(a) /\ IsDef(b)
  THEN LET g1 == GCD(Abs(a[1]), b[2])
           g2 == GCD(Abs(b[1]), a[2])
       IN  RNorm((a[1] \div g1) * (b[1] \div g2), (a[2] \div g2) * (b[2] \div g1))
  ELSE Undef
RMul(a, b) == CHOOSE r \in {MulV(x, y) : x \in {a}, y \in {b}} : TRUE

\* a / b; a division by zero gives no value
DivV(a, b) ==
  IF IsDef(a) /\ IsDef(b) /\ b[1] # 0
  THEN MulV(a, IF b[1] < 0 THEN <<-b[2], -b[1]>> ELSE <<b[2], b[1]>>)
  ELSE Undef
RDiv(a, b) == CHOOSE r \in {DivV(x, y) : x \in {a}, y \in {b}} : TRUE

\* the literal (1./3), the off-diagonal weight
W == <<1, 3>>

(* --------------------------- pure helpers ----------------------------- *)
\* mutant: one factor (1./3) of the denominator is lost
BetaNextOneW(b) == RDiv(One, RSub(One, RMul(W, b)))
\* beta_local[i] = 1./(1. - (1./3)*b*(1./3)) for the preceding beta b
BetaNext(b) == RDiv(One, RSub(One, RMul(RMul(W, b), W)))
\* gam_local[i] = b*(1./3) for the preceding beta b
GamNext(b) == RMul(b, W)

\* an array of ls cells nobody has written (malloc, or the caller's buffer)
Fresh(ls) == [i \in 0..(ls - 1) |-> Undef]
\* initZeros(a, n)
initZeros(n) == [i \in 0..(n - 1) |-> Zero]

\* a[i]; a read outside the array yields an indeterminate value
At(a, i) == IF i \in DOMAIN a THEN a[i] ELSE Undef
\* a[i] = v; a write outside the array changes no cell of it
Store(a, i, v) == IF i \in DOMAIN a THEN [a EXCEPT ![i] = v] ELSE a

\* mutant: rank 0 is seeded like every other rank
ForwardPhiNoBoundary(rank, beta, rl, ls) ==
  LET f[i \in 0..(ls - 1)] ==
        IF i = 0
        THEN RMul(beta[0], rl[0])
        ELSE RMul(beta[i], RSub(rl[i], RMul(W, f[i - 1])))
  IN  f

\* L-R sweep, lines 47-60: the local affine representation
ForwardPhi(rank, beta, rl, ls) ==
  LET f[i \in 0..(ls - 1)] ==
        IF i = 0
        THEN IF rank = 0 THEN Zero ELSE RMul(beta[0], rl[0])
        ELSE RMul(beta[i], RSub(rl[i], RMul(W, f[i - 1])))
  IN  f

\* mutant: the seed of a rank # 0 loses its sign
ForwardPsiNoSign(rank, beta, ls) ==
  LET f[i \in 0..(ls - 1)] ==
        IF i = 0
        THEN IF rank = 0 THEN One ELSE RMul(W, beta[0])
        ELSE RMul(RNeg(RMul(W, beta[i])), f[i - 1])
  IN  f

ForwardPsi(rank, beta, ls) ==
  LET f[i \in 0..(ls - 1)] ==
        IF i = 0
        THEN IF rank = 0 THEN One ELSE RNeg(RMul(W, beta[0]))
        ELSE RMul(RNeg(RMul(W, beta[i])), f[i - 1])
  IN  f

\* product of v[j] for lo <= j < hi (the inner product loops)
RECURSIVE Product(_, _, _)
Product(v, lo, hi) ==
  IF lo >= hi THEN One ELSE RMul(Product(v, lo, hi - 1), v[hi - 1])

\* lines 82-89: the accumulation over i = 0 .. n-1 of phi_lasts[i]*product_1
RECURSIVE ForwardSum(_, _, _, _)
ForwardSum(phil, psil, rank, n) ==
  IF n <= 0 THEN Zero
  ELSE RAdd(ForwardSum(phil, psil, rank, n - 1),
            RMul(phil[n - 1], Product(psil, n, rank)))

\* mutant: the inner loop starts at j = i instead of j = i+1
RECURSIVE ForwardSumFromI(_, _, _, _)
ForwardSumFromI(phil, psil, rank, n) ==
  IF n <= 0 THEN Zero
  ELSE RAdd(ForwardSumFromI(phil, psil, rank, n - 1),
            RMul(phil[n - 1], Product(psil, n - 1, rank)))

ForwardResolveFromI(rank, phil, psil, uf) ==
  RAdd(ForwardSumFromI(phil, psil, rank, rank),
       RMul(uf, Product(psil, 0, rank)))

\* lines 79-91: u_tilda of a rank # 0
ForwardResolveValue(rank, phil, psil, uf) ==
  RAdd(ForwardSum(phil, psil, rank, rank), RMul(uf, Product(psil, 0, rank)))

\* mutant: the coupling term is dropped, each block solved on its own
CombinePhiOnly(phi, psi, coupling, ls) ==
  [i \in 0..(ls - 1) |-> phi[i]]

\* lines 95-97 and 158-161: value_i = phi_i + coupling*psi_i
Combine(phi, psi, coupling, ls) ==
  [i \in 0..(ls - 1) |-> RAdd(phi[i], RMul(coupling, psi[i]))]

\* mutant: the last rank is seeded like every other rank
BackwardPhiNoBoundary(rank, np, u, gam, ls) ==
  LET f[i \in 0..(ls - 1)] ==
        IF i = ls - 1
        THEN u[ls - 1]
        ELSE RSub(u[i], RMul(gam[i + 1], f[i + 1]))
  IN  f

\* R-L sweep, lines 108-122
BackwardPhi(rank, np, u, gam, ls) ==
  LET f[i \in 0..(ls - 1)] ==
        IF i = ls - 1
        THEN IF rank = np - 1 THEN Zero ELSE u[ls - 1]
        ELSE RSub(u[i], RMul(gam[i + 1], f[i + 1]))
  IN  f

BackwardPsi(rank, np, gam, gamf, ls) ==
  LET f[i \in 0..(ls - 1)] ==
        IF i = ls - 1
        THEN IF rank = np - 1 THEN One ELSE RNeg(gamf[rank + 1])
        ELSE RMul(RNeg(gam[i + 1]), f[i + 1])
  IN  f

\* lines 140-146: the accumulation over i = rank+2 .. n-1
RECURSIVE BackwardSum(_, _, _, _)
BackwardSum(phif, psif, rank, n) ==
  IF n <= rank + 2 THEN Zero
  ELSE RAdd(BackwardSum(phif, psif, rank, n - 1),
            RMul(phif[n - 1], Product(psif, rank + 1, n - 1)))

\* mutant: the term phi_firsts[rank+1] of line 153 is left out
BackwardResolveNoFirst(rank, np, phif, psif, xl) ==
  RAdd(BackwardSum(phif, psif, rank, np),
       RMul(xl, Product(psif, rank + 1, np)))

\* mutant: the outer loop of line 140 starts at i = rank+1, so the term
\* phi_firsts[rank+1] is counted twice
BackwardResolveOuterFromNext(rank, np, phif, psif, xl) ==
  RAdd(RAdd(BackwardSum(phif, psif, rank, np), phif[rank + 1]),
       RAdd(phif[rank + 1], RMul(xl, Product(psif, rank + 1, np))))

\* lines 138-154: x_tilda of a rank # nprocs-1
BackwardResolveValue(rank, np, phif, psif, xl) ==
  RAdd(BackwardSum(phif, psif, rank, np),
       RAdd(phif[rank + 1], RMul(xl, Product(psif, rank + 1, np))))


(* ------------------------------- state -------------------------------- *)
VARIABLES
  nprocs,       \* MPI_Comm_size(comm)
  system_size,  \* the argument system_size
  rhs,          \* the driver's right-hand side, by global index
  lostTo,       \* the rank whose incoming hand-off the network never
                \*   delivers, -1 when delivery is reliable
  r_local,      \* r_local of each rank
  beta_local,   \* beta_local of each rank
  gam_local,    \* gam_local of each rank
  x_local,      \* x_local of each rank
  u_local, phi_local, psi_local,       \* per-unknown scratch of each rank
  phi_lasts, psi_lasts, gam_firsts,    \* each rank's copy of the gathered
  phi_firsts, psi_firsts,              \*   per-worker vectors
  u_tilda, x_tilda, u_first, x_last,   \* each rank's scalars
  last_beta,    \* precompute_beta_gam's last_beta of each rank
  pc,           \* the line each rank is at
  inColl,       \* whether the rank is blocked inside the collective at pc
  collbuf,      \* the communicator: contributions to the n-th collective
  colls,        \* the collectives each rank has called, in order
  chan,         \* chan[k]: tag-10 messages in flight to rank k
  sent, recvd,  \* point-to-point messages each rank has sent / received
  live,         \* heap blocks each rank holds
  reported,     \* whether the rank printed the divisibility error
  prev,         \* <<nprocs, x>> of the driver's previous successful run
  runs          \* runs the driver has started

inputV == <<nprocs, system_size, rhs, lostTo, r_local>>
coefV == <<beta_local, gam_local>>
scratchV == <<u_local, phi_local, psi_local>>
gatherV == <<phi_lasts, psi_lasts, gam_firsts, phi_firsts, psi_firsts>>
scalarV == <<u_tilda, x_tilda, u_first, x_last>>
p2pV == <<chan, last_beta, sent, recvd>>
collV == <<collbuf, colls, inColl>>
driverV == <<prev, runs>>

vars == <<inputV, coefV, x_local, scratchV, gatherV, scalarV, p2pV, pc,
          collV, live, reported, driverV>>

Ranks == 0..(nprocs - 1)
\* local_size = system_size/nprocs (lines 25 and 186)
local_size == system_size \div nprocs

\* the number of collective calls of one solve (lines 62-171)
NColl == 14
NotArrived == <<"none", -1, Undef>>

(* ---------------------- the driver's initial data --------------------- *)
\* right-hand sides tried: the unit vectors, all ones, and a ramp from -1
RhsSet(n) ==
  {[g \in 0..(n - 1) |-> IF g = j THEN One ELSE Zero] : j \in 0..(n - 1)}
    \cup {[g \in 0..(n - 1) |-> One], [g \in 0..(n - 1) |-> <<g - 1, 1>>]}

\* the sentinel the driver pre-fills x_local with
Prefill(np, n) ==
  [k \in 0..(np - 1) |-> [i \in 0..((n \div np) - 1) |->
      <<-(7 + k * (n \div np) + i), 1>>]]

PerRank(np, v) == [k \in 0..(np - 1) |-> v]

\* the state in which every rank is about to call precompute_beta_gam with
\* fresh buffers
Launch(np, n, b) ==
  [ nprocs |-> np,
    system_size |-> n,
    rhs |-> b,
    r_local |-> [k \in 0..(np - 1) |-> [i \in 0..((n \div np) - 1) |->
                     b[k * (n \div np) + i]]],
    beta_local |-> PerRank(np, Fresh(n \div np)),
    gam_local |-> PerRank(np, Fresh(n \div np)),
    x_local |-> Prefill(np, n),
    u_local |-> PerRank(np, <<>>),
    phi_local |-> PerRank(np, <<>>),
    psi_local |-> PerRank(np, <<>>),
    phi_lasts |-> PerRank(np, <<>>),
    psi_lasts |-> PerRank(np, <<>>),
    gam_firsts |-> PerRank(np, <<>>),
    phi_firsts |-> PerRank(np, <<>>),
    psi_firsts |-> PerRank(np, <<>>),
    u_tilda |-> PerRank(np, Undef),
    x_tilda |-> PerRank(np, Undef),
    u_first |-> PerRank(np, Undef),
    x_last |-> PerRank(np, Undef),
    last_beta |-> PerRank(np, Undef),
    pc |-> PerRank(np, "L188"),
    inColl |-> PerRank(np, FALSE),
    collbuf |-> [c \in 1..NColl |-> PerRank(np, NotArrived)],
    colls |-> PerRank(np, <<>>),
    chan |-> PerRank(np, <<>>),
    sent |-> PerRank(np, 0),
    recvd |-> PerRank(np, 0),
    reported |-> PerRank(np, FALSE) ]

Init ==
  \E np \in 1..MaxP : \E n \in np..MaxN : \E b \in RhsSet(n) :
    LET s == Launch(np, n, b) IN
    /\ nprocs = s.nprocs
    /\ system_size = s.system_size
    /\ rhs = s.rhs
    /\ r_local = s.r_local
    /\ beta_local = s.beta_local
    /\ gam_local = s.gam_local
    /\ x_local = s.x_local
    /\ u_local = s.u_local
    /\ phi_local = s.phi_local
    /\ psi_local = s.psi_local
    /\ phi_lasts = s.phi_lasts
    /\ psi_lasts = s.psi_lasts
    /\ gam_firsts = s.gam_firsts
    /\ phi_firsts = s.phi_firsts
    /\ psi_firsts = s.psi_firsts
    /\ u_tilda = s.u_tilda
    /\ x_tilda = s.x_tilda
    /\ u_first = s.u_first
    /\ x_last = s.x_last
    /\ last_beta = s.last_beta
    /\ pc = s.pc
    /\ inColl = s.inColl
    /\ collbuf = s.collbuf
    /\ colls = s.colls
    /\ chan = s.chan
    /\ sent = s.sent
    /\ recvd = s.recvd
    /\ reported = s.reported
    /\ lostTo = -1
    /\ live = PerRank(np, 0)
    /\ prev = <<0, <<>>>>
    /\ runs = 1

(* ------------------ precompute_beta_gam, lines 176-210 ---------------- *)
\* entries of its block rank k has written so far
Written(k) == Cardinality({i \in 0..(local_size - 1) : IsDef(beta_local[k][i])})

\* lines 190-193: rank 0 seeds the recurrence
PreSeed(k) ==
  /\ pc[k] = "L188" /\ k = 0
  /\ beta_local' = [beta_local EXCEPT ![k] = Store(@, 0, One)]
  /\ gam_local' = [gam_local EXCEPT ![k] = Store(@, 0, Zero)]
  /\ pc' = [pc EXCEPT ![k] = "L200"]
  /\ UNCHANGED <<inputV, x_local, scratchV, gatherV, scalarV, p2pV, collV,
                 live, reported, driverV>>

\* mutant: the receive does not block; with no message in flight the
\* rank seeds its block from whatever last_beta holds
MPI_RecvNoWait(k) ==
  /\ pc[k] = "L188" /\ k # 0
  /\ LET lb == IF chan[k] # <<>> THEN Head(chan[k]) ELSE One IN
       /\ last_beta' = [last_beta EXCEPT ![k] = lb]
       /\ beta_local' = [beta_local EXCEPT ![k] = Store(@, 0, BetaNext(lb))]
       /\ gam_local' = [gam_local EXCEPT ![k] = Store(@, 0, GamNext(lb))]
  /\ chan' = [chan EXCEPT ![k] = IF @ # <<>> THEN Tail(@) ELSE @]
  /\ recvd' = [recvd EXCEPT ![k] = @ + 1]
  /\ pc' = [pc EXCEPT ![k] = "L200"]
  /\ UNCHANGED <<inputV, x_local, scratchV, gatherV, scalarV, sent, collV,
                 live, reported, driverV>>

\* mutant: the receive gives up waiting for a message that does not arrive
\* and the rank goes on with the last_beta it holds
MPI_RecvTimeout(k) ==
  /\ pc[k] = "L188" /\ k # 0
  /\ LET got == chan[k] # <<>> /\ k # lostTo
         lb == IF got THEN Head(chan[k]) ELSE One
     IN  /\ last_beta' = [last_beta EXCEPT ![k] = lb]
         /\ beta_local' = [beta_local EXCEPT ![k] = Store(@, 0, BetaNext(lb))]
         /\ gam_local' = [gam_local EXCEPT ![k] = Store(@, 0, GamNext(lb))]
         /\ chan' = [chan EXCEPT ![k] = IF got THEN Tail(@) ELSE @]
         /\ recvd' = [recvd EXCEPT ![k] = IF got THEN @ + 1 ELSE @]
  /\ pc' = [pc EXCEPT ![k] = "L200"]
  /\ UNCHANGED <<inputV, x_local, scratchV, gatherV, scalarV, sent, collV,
                 live, reported, driverV>>

\* lines 194-198: a later rank blocks until its left neighbour's last beta
\* arrives, then seeds its block with it
MPI_Recv(k) ==
  /\ pc[k] = "L188" /\ k # 0
  /\ chan[k] # <<>> /\ k # lostTo
  /\ LET lb == Head(chan[k]) IN
       /\ last_beta' = [last_beta EXCEPT ![k] = lb]
       /\ beta_local' = [beta_local EXCEPT ![k] = Store(@, 0, BetaNext(lb))]
       /\ gam_local' = [gam_local EXCEPT ![k] = Store(@, 0, GamNext(lb))]
  /\ chan' = [chan EXCEPT ![k] = Tail(@)]
  /\ recvd' = [recvd EXCEPT ![k] = @ + 1]
  /\ pc' = [pc EXCEPT ![k] = "L200"]
  /\ UNCHANGED <<inputV, x_local, scratchV, gatherV, scalarV, sent, collV,
                 live, reported, driverV>>

\* lines 200-203, one iteration
PreLoop(k) ==
  /\ pc[k] = "L200"
  /\ Written(k) < local_size
  /\ LET i == Written(k) IN
       /\ beta_local' = [beta_local EXCEPT ![k][i] = BetaNext(beta_local[k][i - 1])]
       /\ gam_local' = [gam_local EXCEPT ![k][i] = GamNext(beta_local[k][i - 1])]
  /\ UNCHANGED <<inputV, x_local, scratchV, gatherV, scalarV, p2pV, pc, collV,
                 live, reported, driverV>>

\* line 200 when i reaches local_size, and the test of line 205
PreLoopExit(k) ==
  /\ pc[k] = "L200"
  /\ Written(k) >= local_size
  /\ pc' = [pc EXCEPT ![k] = IF k # nprocs - 1 THEN "L206" ELSE "L20"]
  /\ UNCHANGED <<inputV, coefV, x_local, scratchV, gatherV, scalarV, p2pV,
                 collV, live, reported, driverV>>

\* mutant: the send buffer is &beta_local[0], the first beta of the block
MPI_SendFirstBeta(k) ==
  /\ pc[k] = "L206"
  /\ chan' = [chan EXCEPT ![k + 1] = Append(@, At(beta_local[k], 0))]
  /\ sent' = [sent EXCEPT ![k] = @ + 1]
  /\ \/ pc' = [pc EXCEPT ![k] = "L20"]
     \/ pc' = [pc EXCEPT ![k] = "L206w"]
  /\ UNCHANGED <<inputV, coefV, x_local, scratchV, gatherV, scalarV,
                 last_beta, recvd, collV, live, reported, driverV>>

\* line 206: the standard-mode send either is buffered and returns, or
\* returns only once the receive has matched it
MPI_Send(k) ==
  /\ pc[k] = "L206"
  /\ chan' = [chan EXCEPT ![k + 1] = Append(@, At(beta_local[k], local_size - 1))]
  /\ sent' = [sent EXCEPT ![k] = @ + 1]
  /\ \/ pc' = [pc EXCEPT ![k] = "L20"]
     \/ pc' = [pc EXCEPT ![k] = "L206w"]
  /\ UNCHANGED <<inputV, coefV, x_local, scratchV, gatherV, scalarV,
                 last_beta, recvd, collV, live, reported, driverV>>

MPI_SendReturn(k) ==
  /\ pc[k] = "L206w"
  /\ chan[k + 1] = <<>>
  /\ pc' = [pc EXCEPT ![k] = "L20"]
  /\ UNCHANGED <<inputV, coefV, x_local, scratchV, gatherV, scalarV, p2pV,
                 collV, live, reported, driverV>>

precompute_beta_gam(k) ==
  \/ PreSeed(k)
  \/ MPI_Recv(k)
  \/ PreLoop(k)
  \/ PreLoopExit(k)
  \/ MPI_Send(k)
  \/ MPI_SendReturn(k)

(* ------------- nonperiodic_tridiagonal_solver, lines 8-173 ------------ *)
\* the statements of the solver in program order, by line
Order ==
  <<"L20", "L32", "L47", "L62", "L64", "L67", "L70", "L77", "L79", "L93",
    "L95", "L99", "L105", "L106", "L108", "L124", "L126", "L127", "L129",
    "L136", "L138", "L156", "L158", "L163", "L165", "L171", "done">>

\* mutant: the barrier of line 93 sits inside the branch "rank != 0", so
\* rank 0 goes from line 79 straight to line 95
NextLineRankBarrier(k, line) ==
  IF k = 0 /\ line = "L79" THEN "L95"
  ELSE Order[(CHOOSE i \in 1..(Len(Order) - 1) : Order[i] = line) + 1]

\* the statement rank k executes after the one at line
NextLine(k, line) ==
  Order[(CHOOSE i \in 1..(Len(Order) - 1) : Order[i] = line) + 1]

Goto(k, line) == pc' = [pc EXCEPT ![k] = NextLine(k, line)]

\* mutant: the divisibility test is missing
DivisibleAlways(n, np) == TRUE

\* the test of line 27
Divisible(n, np) == n % np = 0

\* mutant: the scratch buffers are allocated before the test, and the error
\* return keeps them
ValidateLate(k) ==
  /\ pc[k] = "L20"
  /\ live' = [live EXCEPT ![k] = @ + 8]
  /\ IF Divisible(system_size, nprocs)
     THEN /\ Goto(k, "L20")
          /\ UNCHANGED reported
     ELSE /\ reported' = [reported EXCEPT ![k] = TRUE]
          /\ pc' = [pc EXCEPT ![k] = "returned"]
  /\ UNCHANGED <<inputV, coefV, x_local, scratchV, gatherV, scalarV, p2pV,
                 collV, driverV>>

\* lines 20-30: rank, size, and the divisibility test
Validate(k) ==
  /\ pc[k] = "L20"
  /\ IF Divisible(system_size, nprocs)
     THEN /\ Goto(k, "L20")
          /\ UNCHANGED reported
     ELSE /\ reported' = [reported EXCEPT ![k] = TRUE]
          /\ pc' = [pc EXCEPT ![k] = "returned"]
  /\ UNCHANGED <<inputV, coefV, x_local, scratchV, gatherV, scalarV, p2pV,
                 collV, live, driverV>>

\* lines 32-41: the eight mallocs and initZeros(u_local)
Alloc(k) ==
  /\ pc[k] = "L32"
  /\ live' = [live EXCEPT ![k] = @ + 8]
  /\ u_local' = [u_local EXCEPT ![k] = initZeros(local_size)]
  /\ phi_local' = [phi_local EXCEPT ![k] = Fresh(local_size)]
  /\ psi_local' = [psi_local EXCEPT ![k] = Fresh(local_size)]
  /\ phi_lasts' = [phi_lasts EXCEPT ![k] = Fresh(nprocs)]
  /\ psi_lasts' = [psi_lasts EXCEPT ![k] = Fresh(nprocs)]
  /\ phi_firsts' = [phi_firsts EXCEPT ![k] = Fresh(nprocs)]
  /\ psi_firsts' = [psi_firsts EXCEPT ![k] = Fresh(nprocs)]
  /\ gam_firsts' = [gam_firsts EXCEPT ![k] = Fresh(nprocs)]
  /\ Goto(k, "L32")
  /\ UNCHANGED <<inputV, coefV, x_local, scalarV, p2pV, collV, reported,
                 driverV>>

\* lines 47-60: FORWARD_LOCAL
ForwardLocal(k) ==
  /\ pc[k] = "L47"
  /\ phi_local' = [phi_local EXCEPT ![k] =
                     ForwardPhi(k, beta_local[k], r_local[k], local_size)]
  /\ psi_local' = [psi_local EXCEPT ![k] =
                     ForwardPsi(k, beta_local[k], local_size)]
  /\ Goto(k, "L47")
  /\ UNCHANGED <<inputV, coefV, x_local, u_local, gatherV, scalarV, p2pV,
                 collV, live, reported, driverV>>

\* mutant: rank 0 takes 0
FirstUZero(beta, rl) == Zero

\* lines 70-75: what rank 0 takes as u_local[0], u_tilda and u_first
FirstU(beta, rl) == RMul(At(beta, 0), At(rl, 0))

\* lines 70-75
UFirst(k) ==
  /\ pc[k] = "L70"
  /\ IF k = 0
     THEN LET u0 == FirstU(beta_local[k], r_local[k]) IN
            /\ u_local' = [u_local EXCEPT ![k] = Store(@, 0, u0)]
            /\ u_tilda' = [u_tilda EXCEPT ![k] = u0]
            /\ u_first' = [u_first EXCEPT ![k] = u0]
     ELSE /\ u_first' = [u_first EXCEPT ![k] = Zero]
          /\ UNCHANGED <<u_local, u_tilda>>
  /\ Goto(k, "L70")
  /\ UNCHANGED <<inputV, coefV, x_local, phi_local, psi_local, gatherV,
                 x_tilda, x_last, p2pV, collV, live, reported, driverV>>

\* lines 79-91: FORWARD_RESOLVE
ForwardResolve(k) ==
  /\ pc[k] = "L79"
  /\ IF k # 0
     THEN u_tilda' = [u_tilda EXCEPT ![k] =
            ForwardResolveValue(k, phi_lasts[k], psi_lasts[k], u_first[k])]
     ELSE UNCHANGED u_tilda
  /\ Goto(k, "L79")
  /\ UNCHANGED <<inputV, coefV, x_local, scratchV, gatherV, x_tilda, u_first,
                 x_last, p2pV, collV, live, reported, driverV>>

\* mutant: the combine also stores u over the right-hand side, in place
ForwardCombineInPlace(k) ==
  /\ pc[k] = "L95"
  /\ u_local' = [u_local EXCEPT ![k] =
                   Combine(phi_local[k], psi_local[k], u_tilda[k], local_size)]
  /\ r_local' = [r_local EXCEPT ![k] =
                   Combine(phi_local[k], psi_local[k], u_tilda[k], local_size)]
  /\ Goto(k, "L95")
  /\ UNCHANGED <<nprocs, system_size, rhs, lostTo, coefV, x_local, phi_local,
                 psi_local, gatherV, scalarV, p2pV, collV, live, reported,
                 driverV>>

\* lines 95-97: FORWARD_COMBINE
ForwardCombine(k) ==
  /\ pc[k] = "L95"
  /\ u_local' = [u_local EXCEPT ![k] =
                   Combine(phi_local[k], psi_local[k], u_tilda[k], local_size)]
  /\ Goto(k, "L95")
  /\ UNCHANGED <<inputV, coefV, x_local, phi_local, psi_local, gatherV,
                 scalarV, p2pV, collV, live, reported, driverV>>

\* line 105: initZeros(gam_firsts, nprocs)
InitGamFirsts(k) ==
  /\ pc[k] = "L105"
  /\ gam_firsts' = [gam_firsts EXCEPT ![k] = initZeros(nprocs)]
  /\ Goto(k, "L105")
  /\ UNCHANGED <<inputV, coefV, x_local, scratchV, phi_lasts, psi_lasts,
                 phi_firsts, psi_firsts, scalarV, p2pV, collV, live, reported,
                 driverV>>

\* lines 108-122: BACKWARD_LOCAL, in place in phi_local and psi_local
BackwardLocal(k) ==
  /\ pc[k] = "L108"
  /\ phi_local' = [phi_local EXCEPT ![k] =
       BackwardPhi(k, nprocs, u_local[k], gam_local[k], local_size)]
  /\ psi_local' = [psi_local EXCEPT ![k] =
       BackwardPsi(k, nprocs, gam_local[k], gam_firsts[k], local_size)]
  /\ Goto(k, "L108")
  /\ UNCHANGED <<inputV, coefV, x_local, u_local, gatherV, scalarV, p2pV,
                 collV, live, reported, driverV>>

\* lines 129-134
XLast(k) ==
  /\ pc[k] = "L129"
  /\ IF k = nprocs - 1
     THEN LET xl == At(u_local[k], local_size - 1) IN
            /\ x_local' = [x_local EXCEPT ![k] = Store(@, local_size - 1, xl)]
            /\ x_tilda' = [x_tilda EXCEPT ![k] = xl]
            /\ x_last' = [x_last EXCEPT ![k] = xl]
     ELSE /\ x_last' = [x_last EXCEPT ![k] = Zero]
          /\ UNCHANGED <<x_local, x_tilda>>
  /\ Goto(k, "L129")
  /\ UNCHANGED <<inputV, coefV, scratchV, gatherV, u_tilda, u_first, p2pV,
                 collV, live, reported, driverV>>

\* lines 138-154: BACKWARD_RESOLVE
BackwardResolve(k) ==
  /\ pc[k] = "L138"
  /\ IF k # nprocs - 1
     THEN x_tilda' = [x_tilda EXCEPT ![k] =
            BackwardResolveValue(k, nprocs, phi_firsts[k], psi_firsts[k],
                                 x_last[k])]
     ELSE UNCHANGED x_tilda
  /\ Goto(k, "L138")
  /\ UNCHANGED <<inputV, coefV, x_local, scratchV, gatherV, u_tilda, u_first,
                 x_last, p2pV, collV, live, reported, driverV>>

\* lines 158-161: BACKWARD_COMBINE
BackwardCombine(k) ==
  /\ pc[k] = "L158"
  /\ x_local' = [x_local EXCEPT ![k] =
                   Combine(phi_local[k], psi_local[k], x_tilda[k], local_size)]
  /\ Goto(k, "L158")
  /\ UNCHANGED <<inputV, coefV, scratchV, gatherV, scalarV, p2pV, collV, live,
                 reported, driverV>>

\* lines 165-169: the five frees
Free(k) ==
  /\ pc[k] = "L165"
  /\ live' = [live EXCEPT ![k] = @ - 5]
  /\ u_local' = [u_local EXCEPT ![k] = <<>>]
  /\ phi_local' = [phi_local EXCEPT ![k] = <<>>]
  /\ psi_local' = [psi_local EXCEPT ![k] = <<>>]
  /\ phi_lasts' = [phi_lasts EXCEPT ![k] = <<>>]
  /\ psi_lasts' = [psi_lasts EXCEPT ![k] = <<>>]
  /\ Goto(k, "L165")
  /\ UNCHANGED <<inputV, coefV, x_local, gam_firsts, phi_firsts, psi_firsts,
                 scalarV, p2pV, collV, reported, driverV>>

(* --------------------------- the collectives -------------------------- *)
AllgatherSites == {"L64", "L67", "L106", "L126", "L127"}
BcastSites == {"L77", "L136"}
BarrierSites == {"L62", "L93", "L99", "L124", "L156", "L163", "L171"}
CollSites == AllgatherSites \cup BcastSites \cup BarrierSites

CollKind(site) ==
  IF site \in AllgatherSites THEN "allgather"
  ELSE IF site \in BcastSites THEN "bcast" ELSE "barrier"

\* mutant: both broadcasts are rooted at rank 0
CollRootZero(site) ==
  IF site = "L77" THEN 0 ELSE IF site = "L136" THEN 0 ELSE -1

\* the root argument of the MPI_Bcast calls of lines 77 and 136
CollRoot(site) ==
  IF site = "L77" THEN 0 ELSE IF site = "L136" THEN nprocs - 1 ELSE -1

\* the send buffer of the call at site
SendBuf(k, site) ==
  CASE site = "L64" -> At(phi_local[k], local_size - 1)
    [] site = "L67" -> At(psi_local[k], local_size - 1)
    [] site = "L77" -> u_first[k]
    [] site = "L106" -> At(gam_local[k], 0)
    [] site = "L126" -> At(phi_local[k], 0)
    [] site = "L127" -> At(psi_local[k], 0)
    [] site = "L136" -> x_last[k]
    [] OTHER -> Zero

\* rank k calls the collective at its line: its contribution goes to the
\* communicator's next collective, matched by call order
CollectiveCall(k) ==
  /\ pc[k] \in CollSites
  /\ ~inColl[k]
  /\ Len(colls[k]) < NColl
  /\ LET n == Len(colls[k]) + 1 IN
       collbuf' = [collbuf EXCEPT ![n][k] =
                     <<CollKind(pc[k]), CollRoot(pc[k]), SendBuf(k, pc[k])>>]
  /\ colls' = [colls EXCEPT ![k] = Append(@, <<CollKind(pc[k]), CollRoot(pc[k])>>)]
  /\ inColl' = [inColl EXCEPT ![k] = TRUE]
  /\ UNCHANGED <<inputV, coefV, x_local, scratchV, gatherV, scalarV, p2pV, pc,
                 live, reported, driverV>>

SameCall(e, me) == e[1] = me[1] /\ e[2] = me[2]

\* mutant: MPI_Barrier returns at once, as if the barriers were left out
CollectiveReadyNoBarrier(k) ==
  LET n == Len(colls[k])
      me == collbuf[n][k]
  IN  IF me[1] = "bcast"
      THEN k = me[2] \/ SameCall(collbuf[n][me[2]], me)
      ELSE me[1] = "barrier" \/ \A j \in Ranks : SameCall(collbuf[n][j], me)

\* whether the collective rank k is blocked in can return: a broadcast
\* once the root has called it, the others once every rank has
CollectiveReady(k) ==
  LET n == Len(colls[k])
      me == collbuf[n][k]
  IN  IF me[1] = "bcast"
      THEN k = me[2] \/ SameCall(collbuf[n][me[2]], me)
      ELSE \A j \in Ranks : SameCall(collbuf[n][j], me)

Gathered(n) == [j \in Ranks |-> collbuf[n][j][3]]

\* the collective returns, its receive buffer filled
CollectiveReturn(k) ==
  /\ inColl[k]
  /\ CollectiveReady(k)
  /\ LET n == Len(colls[k])
         site == pc[k]
     IN  /\ phi_lasts' = IF site = "L64"
                         THEN [phi_lasts EXCEPT ![k] = Gathered(n)] ELSE phi_lasts
         /\ psi_lasts' = IF site = "L67"
                         THEN [psi_lasts EXCEPT ![k] = Gathered(n)] ELSE psi_lasts
         /\ gam_firsts' = IF site = "L106"
                          THEN [gam_firsts EXCEPT ![k] = Gathered(n)] ELSE gam_firsts
         /\ phi_firsts' = IF site = "L126"
                          THEN [phi_firsts EXCEPT ![k] = Gathered(n)] ELSE phi_firsts
         /\ psi_firsts' = IF site = "L127"
                          THEN [psi_firsts EXCEPT ![k] = Gathered(n)] ELSE psi_firsts
         /\ u_first' = IF site = "L77"
                       THEN [u_first EXCEPT ![k] = collbuf[n][CollRoot(site)][3]]
                       ELSE u_first
         /\ x_last' = IF site = "L136"
                      THEN [x_last EXCEPT ![k] = collbuf[n][CollRoot(site)][3]]
                      ELSE x_last
         /\ Goto(k, site)
  /\ inColl' = [inColl EXCEPT ![k] = FALSE]
  /\ UNCHANGED <<inputV, coefV, x_local, scratchV, u_tilda, x_tilda, p2pV,
                 collbuf, colls, live, reported, driverV>>

nonperiodic_tridiagonal_solver(k) ==
  \/ Validate(k)
  \/ Alloc(k)
  \/ ForwardLocal(k)
  \/ UFirst(k)
  \/ ForwardResolve(k)
  \/ ForwardCombine(k)
  \/ InitGamFirsts(k)
  \/ BackwardLocal(k)
  \/ XLast(k)
  \/ BackwardResolve(k)
  \/ BackwardCombine(k)
  \/ Free(k)
  \/ CollectiveCall(k)
  \/ CollectiveReturn(k)

(* ------------------------------ the driver ---------------------------- *)
AllDone == \A k \in Ranks : pc[k] = "done"
AllReturned == \A k \in Ranks : pc[k] \in {"done", "returned"}

\* the x_local blocks concatenated in rank order
GlobalX == [g \in 0..(system_size - 1) |->
              x_local[g \div local_size][g % local_size]]
GlobalU == [g \in 0..(system_size - 1) |->
              u_local[g \div local_size][g % local_size]]

\* the driver solves the same system again, in a new job of np workers
Rerun(np) ==
  /\ AllReturned
  /\ runs < MaxRuns
  /\ np <= system_size
  /\ LET s == Launch(np, system_size, rhs) IN
       /\ nprocs' = s.nprocs
       /\ system_size' = s.system_size
       /\ rhs' = s.rhs
       /\ r_local' = s.r_local
       /\ beta_local' = s.beta_local
       /\ gam_local' = s.gam_local
       /\ x_local' = s.x_local
       /\ u_local' = s.u_local
       /\ phi_local' = s.phi_local
       /\ psi_local' = s.psi_local
       /\ phi_lasts' = s.phi_lasts
       /\ psi_lasts' = s.psi_lasts
       /\ gam_firsts' = s.gam_firsts
       /\ phi_firsts' = s.phi_firsts
       /\ psi_firsts' = s.psi_firsts
       /\ u_tilda' = s.u_tilda
       /\ x_tilda' = s.x_tilda
       /\ u_first' = s.u_first
       /\ x_last' = s.x_last
       /\ last_beta' = s.last_beta
       /\ pc' = s.pc
       /\ inColl' = s.inColl
       /\ collbuf' = s.collbuf
       /\ colls' = s.colls
       /\ chan' = s.chan
       /\ sent' = s.sent
       /\ recvd' = s.recvd
       /\ reported' = s.reported
  /\ lostTo' = -1
  /\ live' = PerRank(np, 0)
  /\ prev' = IF AllDone THEN <<nprocs, GlobalX>> ELSE prev
  /\ runs' = runs + 1

Worker(k) == precompute_beta_gam(k) \/ nonperiodic_tridiagonal_solver(k)

\* one step of one rank
WorkerNext ==
  \/ \E k \in Ranks : PreSeed(k)
  \/ \E k \in Ranks : MPI_Recv(k)
  \/ \E k \in Ranks : PreLoop(k)
  \/ \E k \in Ranks : PreLoopExit(k)
  \/ \E k \in Ranks : MPI_Send(k)
  \/ \E k \in Ranks : MPI_SendReturn(k)
  \/ \E k \in Ranks : Validate(k)
  \/ \E k \in Ranks : Alloc(k)
  \/ \E k \in Ranks : ForwardLocal(k)
  \/ \E k \in Ranks : CollectiveCall(k)
  \/ \E k \in Ranks : CollectiveReturn(k)
  \/ \E k \in Ranks : UFirst(k)
  \/ \E k \in Ranks : ForwardResolve(k)
  \/ \E k \in Ranks : ForwardCombine(k)
  \/ \E k \in Ranks : InitGamFirsts(k)
  \/ \E k \in Ranks : BackwardLocal(k)
  \/ \E k \in Ranks : XLast(k)
  \/ \E k \in Ranks : BackwardResolve(k)
  \/ \E k \in Ranks : BackwardCombine(k)
  \/ \E k \in Ranks : Free(k)

Next ==
  \/ WorkerNext
  \/ \E np \in 1..MaxP : Rerun(np)

Spec == Init /\ [][Next]_vars

\* one run of the pipeline and the solver, in which every rank that can take
\* a step eventually takes one
FairSpec ==
  /\ Init
  /\ [][WorkerNext]_vars
  /\ \A k \in 0..(MaxP - 1) : WF_vars(k \in Ranks /\ Worker(k))

(* ----------------------- the indices of each statement --------------- *)
\* the indices into beta_local, gam_local, r_local, x_local, u_local,
\* phi_local and psi_local used by the statement rank k is at
UnknownIdx(k) ==
  LET ls == local_size
      line == pc[k]
  IN  CASE line = "L188" -> {0}
        [] line = "L200" -> IF Written(k) < ls
                            THEN {Written(k), Written(k) - 1} ELSE {}
        [] line = "L206" -> {ls - 1}
        [] line = "L47" ->
             {0} \cup {i : i \in 1..(ls - 1)} \cup {i - 1 : i \in 1..(ls - 1)}
        [] line \in {"L64", "L67"} -> {ls - 1}
        [] line = "L70" -> IF k = 0 THEN {0} ELSE {}
        [] line = "L95" -> {i : i \in 0..(ls - 1)}
        [] line \in {"L106", "L126", "L127"} -> {0}
        [] line = "L108" ->
             {ls - 1} \cup {ls - 1 - i : i \in 1..(ls - 1)}
                      \cup {ls - 1 - i + 1 : i \in 1..(ls - 1)}
        [] line = "L129" -> IF k = nprocs - 1 THEN {ls - 1} ELSE {}
        [] line = "L158" -> {ls - 1 - i : i \in 0..(ls - 1)}
        [] OTHER -> {}

\* the indices into phi_lasts, psi_lasts, gam_firsts, phi_firsts and
\* psi_firsts used by the statement rank k is at
WorkerIdx(k) ==
  LET line == pc[k] IN
  CASE line \in AllgatherSites \cup {"L105"} -> {i : i \in 0..(nprocs - 1)}
    [] line = "L79" ->
         IF k # 0
         THEN {i : i \in 0..(k - 1)}
                \cup UNION {{j : j \in (i + 1)..(k - 1)} : i \in 0..(k - 1)}
         ELSE {}
    [] line = "L108" -> IF k # nprocs - 1 THEN {k + 1} ELSE {}
    [] line = "L138" ->
         IF k # nprocs - 1
         THEN {i : i \in (k + 2)..(nprocs - 1)}
                \cup UNION {{j : j \in (k + 1)..(i - 1)} :
                              i \in (k + 2)..(nprocs - 1)}
                \cup {i : i \in (k + 1)..(nprocs - 1)}
                \cup {k + 1}
         ELSE {}
    [] OTHER -> {}

\* every index of the statement rank k is at lies inside its array
IndexSafe(k) ==
  /\ UnknownIdx(k) \subseteq 0..(local_size - 1)
  /\ WorkerIdx(k) \subseteq 0..(nprocs - 1)

\* an access outside an array is undefined behaviour: the rank either goes
\* on as the statement's action describes (a read gives an indeterminate
\* value, a write touches no cell of the array), or is killed
UndefinedBehaviour(k) ==
  /\ ~IndexSafe(k) /\ ~inColl[k]
  /\ pc' = [pc EXCEPT ![k] = "crashed"]
  /\ UNCHANGED <<inputV, coefV, x_local, scratchV, gatherV, scalarV, p2pV,
                 collV, live, reported, driverV>>

\* as Init, for every system_size that is a multiple of nprocs, 0 included
InitIdx ==
  \E np \in 1..MaxP : \E n \in {m \in 0..MaxN : m % np = 0} :
  \E b \in {[g \in 0..(n - 1) |-> One]} :
    LET s == Launch(np, n, b) IN
    /\ nprocs = s.nprocs
    /\ system_size = s.system_size
    /\ rhs = s.rhs
    /\ r_local = s.r_local
    /\ beta_local = s.beta_local
    /\ gam_local = s.gam_local
    /\ x_local = s.x_local
    /\ u_local = s.u_local
    /\ phi_local = s.phi_local
    /\ psi_local = s.psi_local
    /\ phi_lasts = s.phi_lasts
    /\ psi_lasts = s.psi_lasts
    /\ gam_firsts = s.gam_firsts
    /\ phi_firsts = s.phi_firsts
    /\ psi_firsts = s.psi_firsts
    /\ u_tilda = s.u_tilda
    /\ x_tilda = s.x_tilda
    /\ u_first = s.u_first
    /\ x_last = s.x_last
    /\ last_beta = s.last_beta
    /\ pc = s.pc
    /\ inColl = s.inColl
    /\ collbuf = s.collbuf
    /\ colls = s.colls
    /\ chan = s.chan
    /\ sent = s.sent
    /\ recvd = s.recvd
    /\ reported = s.reported
    /\ lostTo = -1
    /\ live = PerRank(np, 0)
    /\ prev = <<0, <<>>>>
    /\ runs = 1

NextIdx ==
  \/ WorkerNext
  \/ \E k \in Ranks : UndefinedBehaviour(k)

SpecIdx == InitIdx /\ [][NextIdx]_vars

(* ------------- the pipeline when one hand-off is never delivered ------ *)
\* as Init, but the network never delivers the message sent to rank st
InitStall ==
  \E np \in 2..MaxP : \E n \in np..MaxN : \E b \in RhsSet(n) :
  \E st \in 1..(np - 1) :
    LET s == Launch(np, n, b) IN
    /\ nprocs = s.nprocs
    /\ system_size = s.system_size
    /\ rhs = s.rhs
    /\ r_local = s.r_local
    /\ beta_local = s.beta_local
    /\ gam_local = s.gam_local
    /\ x_local = s.x_local
    /\ u_local = s.u_local
    /\ phi_local = s.phi_local
    /\ psi_local = s.psi_local
    /\ phi_lasts = s.phi_lasts
    /\ psi_lasts = s.psi_lasts
    /\ gam_firsts = s.gam_firsts
    /\ phi_firsts = s.phi_firsts
    /\ psi_firsts = s.psi_firsts
    /\ u_tilda = s.u_tilda
    /\ x_tilda = s.x_tilda
    /\ u_first = s.u_first
    /\ x_last = s.x_last
    /\ last_beta = s.last_beta
    /\ pc = s.pc
    /\ inColl = s.inColl
    /\ collbuf = s.collbuf
    /\ colls = s.colls
    /\ chan = s.chan
    /\ sent = s.sent
    /\ recvd = s.recvd
    /\ reported = s.reported
    /\ lostTo = st
    /\ live = PerRank(np, 0)
    /\ prev = <<0, <<>>>>
    /\ runs = 1

NextStall == \E k \in Ranks : precompute_beta_gam(k)

\* every rank that can take a step of precompute_beta_gam eventually does
StallSpec ==
  /\ InitStall
  /\ [][NextStall]_vars
  /\ \A k \in 0..(MaxP - 1) : WF_vars(k \in Ranks /\ precompute_beta_gam(k))

(* ------------- FORWARD_RESOLVE on arbitrary gathered vectors ---------- *)
\* values the gathered vectors and u_first are drawn from
ResVals == {<<-1, 1>>, <<1, 2>>, <<2, 1>>}

\* every rank at line 79, holding arbitrary phi_lasts, psi_lasts and u_first
InitFR ==
  \E np \in 1..MaxP :
  \E pl \in [0..(np - 1) -> ResVals] : \E sl \in [0..(np - 1) -> ResVals] :
  \E uf \in ResVals :
    LET s == Launch(np, np, [g \in 0..(np - 1) |-> One]) IN
    /\ nprocs = s.nprocs
    /\ system_size = s.system_size
    /\ rhs = s.rhs
    /\ r_local = s.r_local
    /\ beta_local = s.beta_local
    /\ gam_local = s.gam_local
    /\ x_local = s.x_local
    /\ u_local = s.u_local
    /\ phi_local = s.phi_local
    /\ psi_local = s.psi_local
    /\ phi_lasts = PerRank(np, pl)
    /\ psi_lasts = PerRank(np, sl)
    /\ gam_firsts = s.gam_firsts
    /\ phi_firsts = s.phi_firsts
    /\ psi_firsts = s.psi_firsts
    /\ u_tilda = [k \in 0..(np - 1) |-> IF k = 0 THEN uf ELSE Undef]
    /\ x_tilda = s.x_tilda
    /\ u_first = PerRank(np, uf)
    /\ x_last = s.x_last
    /\ last_beta = s.last_beta
    /\ pc = PerRank(np, "L79")
    /\ inColl = s.inColl
    /\ collbuf = s.collbuf
    /\ colls = s.colls
    /\ chan = s.chan
    /\ sent = s.sent
    /\ recvd = s.recvd
    /\ reported = s.reported
    /\ lostTo = -1
    /\ live = PerRank(np, 8)
    /\ prev = <<0, <<>>>>
    /\ runs = 1

NextFR == \E k \in Ranks : ForwardResolve(k)

SpecFR == InitFR /\ [][NextFR]_vars

(* ------------ BACKWARD_RESOLVE on arbitrary gathered vectors ---------- *)
\* every rank at line 138, holding arbitrary phi_firsts, psi_firsts, x_last
InitBR ==
  \E np \in 1..MaxP :
  \E pf \in [0..(np - 1) -> ResVals] : \E sf \in [0..(np - 1) -> ResVals] :
  \E xl \in ResVals :
    LET s == Launch(np, np, [g \in 0..(np - 1) |-> One]) IN
    /\ nprocs = s.nprocs
    /\ system_size = s.system_size
    /\ rhs = s.rhs
    /\ r_local = s.r_local
    /\ beta_local = s.beta_local
    /\ gam_local = s.gam_local
    /\ x_local = s.x_local
    /\ u_local = s.u_local
    /\ phi_local = s.phi_local
    /\ psi_local = s.psi_local
    /\ phi_lasts = s.phi_lasts
    /\ psi_lasts = s.psi_lasts
    /\ gam_firsts = s.gam_firsts
    /\ phi_firsts = PerRank(np, pf)
    /\ psi_firsts = PerRank(np, sf)
    /\ u_tilda = s.u_tilda
    /\ x_tilda = [k \in 0..(np - 1) |-> IF k = np - 1 THEN xl ELSE Undef]
    /\ u_first = s.u_first
    /\ x_last = PerRank(np, xl)
    /\ last_beta = s.last_beta
    /\ pc = PerRank(np, "L138")
    /\ inColl = s.inColl
    /\ collbuf = s.collbuf
    /\ colls = s.colls
    /\ chan = s.chan
    /\ sent = s.sent
    /\ recvd = s.recvd
    /\ reported = s.reported
    /\ lostTo = -1
    /\ live = PerRank(np, 8)
    /\ prev = <<0, <<>>>>
    /\ runs = 1

NextBR == \E k \in Ranks : BackwardResolve(k)

SpecBR == InitBR /\ [][NextBR]_vars

(* ------------------ sequential reference and positions ---------------- *)
\* the scalar recurrence beta[0] = 1, beta[n] = 1/(1 - w*beta[n-1]*w), as
\* the sequence of its first m terms
RECURSIVE BetaSeq(_)
BetaSeq(m) ==
  IF m <= 0 THEN <<>>
  ELSE IF m = 1 THEN <<One>>
  ELSE LET p == BetaSeq(m - 1) IN
         Append(p, RDiv(One, RSub(One, RMul(RMul(W, W), p[m - 1]))))

\* its first MaxN terms, computed once
BetaTable == BetaSeq(MaxN)

SeqBeta(n) == [g \in 0..(n - 1) |-> BetaTable[g + 1]]

\* gam[0] = 0, gam[n] = w*beta[n-1]; the first MaxN terms, computed once
GamTable ==
  [g \in 1..MaxN |-> IF g = 1 THEN Zero ELSE RMul(W, BetaTable[g - 1])]

SeqGam(n) == [g \in 0..(n - 1) |-> GamTable[g + 1]]

\* forward elimination u_0 = beta_0*r_0, u_i = beta_i*(r_i - w*u_{i-1}), as
\* the sequence of its first m terms
RECURSIVE USeq(_, _, _)
USeq(m, sb, b) ==
  IF m <= 0 THEN <<>>
  ELSE IF m = 1 THEN <<RMul(sb[1], b[0])>>
  ELSE LET p == USeq(m - 1, sb, b) IN
         Append(p, RMul(sb[m], RSub(b[m - 1], RMul(W, p[m - 1]))))

ThomasU(n, b) ==
  LET s == USeq(n, BetaTable, b) IN [g \in 0..(n - 1) |-> s[g + 1]]

\* back substitution x_{N-1} = u_{N-1}, x_i = u_i - gam_{i+1}*x_{i+1}
ThomasX(n, b) ==
  LET u == ThomasU(n, b)
      sg == SeqGam(n)
      f[g \in 0..(n - 1)] ==
        IF g = n - 1 THEN u[g]
        ELSE RSub(u[g], RMul(sg[g + 1], f[g + 1]))
  IN  f

\* x solves the system with unit diagonal and off-diagonal weight w
SolvesSystem(n, b, x) ==
  \A g \in 0..(n - 1) :
    RAdd(x[g],
         RAdd(IF g > 0 THEN RMul(W, x[g - 1]) ELSE Zero,
              IF g < n - 1 THEN RMul(W, x[g + 1]) ELSE Zero)) = b[g]

\* position of a line in the solver's program order, 0 outside the solver
LinePos ==
  [l \in {Order[i] : i \in 1..Len(Order)} |->
     CHOOSE i \in 1..Len(Order) : Order[i] = l]

PosOf(line) == IF line \in DOMAIN LinePos THEN LinePos[line] ELSE 0

\* rank k has executed the statement at line
Past(k, line) == PosOf(pc[k]) > PosOf(line)

\* rank k has returned from precompute_beta_gam
PreReturned(k) == pc[k] \notin {"L188", "L200", "L206", "L206w"}

(* ------------------------------- claims ------------------------------- *)
\* C1: when every worker has finished the solver, the x_local blocks
\* concatenated in rank order are the x of sequential Thomas elimination on
\* the full system, and that x solves the system.
C1_MatchesThomas ==
  AllDone =>
    /\ GlobalX = ThomasX(system_size, rhs)
    /\ SolvesSystem(system_size, rhs, GlobalX)

C1_Witness ==
  /\ AllDone
  /\ nprocs = 3 /\ local_size = 2
  /\ \A g \in 0..(system_size - 1) : rhs[g] = One

\* C2: two runs on the same system with different worker counts end with
\* the same global solution vector.
C2_PartitionInvariance ==
  (AllDone /\ prev[1] # 0) => GlobalX = prev[2]

C2_Witness ==
  /\ AllDone
  /\ prev[1] # 0 /\ prev[1] # nprocs
  /\ nprocs > 1 /\ local_size > 1

\* C3: when system_size is no multiple of the worker count, every worker
\* that leaves the validation has reported the error and returned, and
\* x_local keeps its pre-filled content throughout.
C3_DivisibilityRejection ==
  system_size % nprocs # 0 =>
    /\ x_local = Prefill(nprocs, system_size)
    /\ \A k \in Ranks : PreReturned(k) /\ pc[k] # "L20" =>
                          pc[k] = "returned" /\ reported[k]

C3_Witness ==
  /\ system_size % nprocs # 0
  /\ \A k \in Ranks : pc[k] = "returned" /\ reported[k]

\* C4: for N divisible by P, once a worker has returned from
\* precompute_beta_gam its beta_local[i] and gam_local[i] are the entries at
\* global index k*(N/P)+i of the one sequential recurrence.
C4_PipelineResult ==
  system_size % nprocs = 0 =>
    LET sb == SeqBeta(system_size)
        sg == SeqGam(system_size)
    IN  \A k \in Ranks : PreReturned(k) =>
          /\ beta_local[k] = [i \in 0..(local_size - 1) |-> sb[k * local_size + i]]
          /\ gam_local[k] = [i \in 0..(local_size - 1) |-> sg[k * local_size + i]]

C4_Witness ==
  /\ nprocs = 3 /\ local_size = 2
  /\ \A k \in Ranks : PreReturned(k)

\* C5: a worker has written an entry of its block only if every lower rank
\* has written its whole block, so at most one worker is inside its block
\* computation at any time.
C5_PipelineOrder ==
  /\ \A k \in Ranks : \A j \in 0..(k - 1) :
       Written(k) > 0 => Written(j) = local_size
  /\ Cardinality({k \in Ranks : 0 < Written(k) /\ Written(k) < local_size}) <= 1

C5_Witness ==
  /\ nprocs = 3 /\ local_size = 2
  /\ Written(1) = 1
  /\ Written(2) = 0

\* the collectives of one successful solve, in order, with their roots
ExpectedColls(np) ==
  << <<"barrier", -1>>, <<"allgather", -1>>, <<"allgather", -1>>,
     <<"bcast", 0>>, <<"barrier", -1>>, <<"barrier", -1>>,
     <<"allgather", -1>>, <<"barrier", -1>>, <<"allgather", -1>>,
     <<"allgather", -1>>, <<"bcast", np - 1>>, <<"barrier", -1>>,
     <<"barrier", -1>>, <<"barrier", -1>> >>

IsPrefix(s, t) == Len(s) <= Len(t) /\ \A i \in 1..Len(s) : s[i] = t[i]

\* C6: on the success path every worker issues the same collectives in the
\* same order with the same roots, finishing with the whole list; the group
\* never deadlocks, and under fair scheduling every worker reaches DONE.
C6_SameCollectives ==
  /\ [](\A k \in Ranks :
          /\ IsPrefix(colls[k], ExpectedColls(nprocs))
          /\ pc[k] = "done" => colls[k] = ExpectedColls(nprocs))
  /\ [](AllReturned \/ ENABLED (\E k \in Ranks : Worker(k)))
  /\ []((system_size % nprocs = 0) => <>AllDone)

C6_Witness ==
  /\ AllDone
  /\ nprocs = 3
  /\ \A k \in Ranks : colls[k] = ExpectedColls(3)

\* C7: on a size/group mismatch no worker allocates a scratch buffer or
\* enters a collective, and the error return is taken by every worker or by
\* none: no worker is on the success path while another has returned.
C7_ErrorPathNoEffects ==
  /\ system_size % nprocs # 0 =>
       \A k \in Ranks :
         /\ live[k] = 0
         /\ u_local[k] = <<>> /\ phi_local[k] = <<>> /\ psi_local[k] = <<>>
         /\ colls[k] = <<>> /\ ~inColl[k]
         /\ ~Past(k, "L20")
  /\ system_size % nprocs = 0 =>
       \A k \in Ranks : pc[k] # "returned" /\ ~reported[k]
  /\ \A k \in Ranks : \A j \in Ranks : ~(pc[k] = "returned" /\ Past(j, "L20"))

C7_Witness ==
  /\ system_size % nprocs # 0
  /\ nprocs = 3
  /\ pc[0] = "returned" /\ reported[0]
  /\ pc[2] = "L188"

\* C8: with one worker no message is sent or received, u_tilda stays
\* beta[0]*r[0] and x_tilda is u[N-1], and the combines give the sequential
\* forward elimination u and back substitution x.
C8_SingleWorker ==
  nprocs = 1 =>
    /\ sent[0] = 0 /\ recvd[0] = 0 /\ chan[0] = <<>>
    /\ Past(0, "L70") => u_tilda[0] = RMul(beta_local[0][0], r_local[0][0])
    /\ (Past(0, "L95") /\ ~Past(0, "L165")) =>
         u_local[0] = ThomasU(system_size, rhs)
    /\ Past(0, "L129") => x_tilda[0] = ThomasU(system_size, rhs)[system_size - 1]
    /\ Past(0, "L158") => x_local[0] = ThomasX(system_size, rhs)

C8_Witness ==
  /\ nprocs = 1 /\ system_size >= 3
  /\ pc[0] = "done"
  /\ rhs[0] # Zero

\* C9 as stated: the u_tilda rank 0 uses in FORWARD_COMBINE is 0.
C9_RankZeroUTildaIsZero ==
  Past(0, "L95") => u_tilda[0] = Zero

\* C9, amended: from lines 72-74 on, rank 0's u_tilda is u_local[0] =
\* beta_local[0]*r_local[0], the value it broadcasts as u_first; the resolve
\* loop leaves it alone, and it is 0 only when r_local[0] is 0.
C9_RankZeroUTilda ==
  Past(0, "L70") =>
    /\ u_tilda[0] = RMul(beta_local[0][0], r_local[0][0])
    /\ u_tilda[0] = u_first[0]
    /\ (u_tilda[0] = Zero) <=> (r_local[0][0] = Zero)

C9_Witness ==
  /\ Past(0, "L95")
  /\ nprocs >= 2
  /\ r_local[0][0] # Zero

\* the reduced recurrence U_0 = u_first, U_m = phi_lasts[m-1] +
\* psi_lasts[m-1]*U_{m-1}
RECURSIVE ReducedU(_, _, _, _)
ReducedU(m, phil, psil, uf) ==
  IF m = 0 THEN uf
  ELSE RAdd(phil[m - 1], RMul(psil[m - 1], ReducedU(m - 1, phil, psil, uf)))

\* C10: whatever phi_lasts, psi_lasts and u_first hold, the double loop
\* leaves in u_tilda of a rank k > 0 the k-th term of the reduced recurrence.
C10_ForwardClosedForm ==
  \A k \in Ranks :
    (k > 0 /\ pc[k] = "L93") =>
      u_tilda[k] = ReducedU(k, phi_lasts[k], psi_lasts[k], u_first[k])

C10_Witness ==
  /\ nprocs = 3
  /\ pc[2] = "L93" /\ pc[1] = "L93"
  /\ phi_lasts[2][0] # phi_lasts[2][1]
  /\ psi_lasts[2][0] # psi_lasts[2][1]

\* the mirrored reduced recurrence X_{P-1} = x_last, X_m = phi_firsts[m+1] +
\* psi_firsts[m+1]*X_{m+1}
RECURSIVE ReducedX(_, _, _, _, _)
ReducedX(m, np, phif, psif, xl) ==
  IF m >= np - 1 THEN xl
  ELSE RAdd(phif[m + 1], RMul(psif[m + 1], ReducedX(m + 1, np, phif, psif, xl)))

\* C11: whatever phi_firsts, psi_firsts and x_last hold, the loops leave in
\* x_tilda of a rank k < P-1 the k-th term of the mirrored reduced
\* recurrence; for k = P-2 that is phi_firsts[P-1] + x_last*psi_firsts[P-1].
C11_BackwardClosedForm ==
  \A k \in Ranks :
    (k < nprocs - 1 /\ pc[k] = "L156") =>
      /\ x_tilda[k] = ReducedX(k, nprocs, phi_firsts[k], psi_firsts[k], x_last[k])
      /\ k = nprocs - 2 =>
           x_tilda[k] = RAdd(phi_firsts[k][nprocs - 1],
                             RMul(x_last[k], psi_firsts[k][nprocs - 1]))

C11_Witness ==
  /\ nprocs = 3
  /\ pc[0] = "L156" /\ pc[1] = "L156"
  /\ phi_firsts[0][1] # phi_firsts[0][2]
  /\ psi_firsts[0][1] # psi_firsts[0][2]

\* C12: for P dividing N, once a worker has run FORWARD_COMBINE (and until it
\* frees u_local) its u_local is its block of the sequential forward
\* elimination u; when all workers have, the blocks concatenated in rank
\* order are that u.  Blocks of size 1 included.
C12_ForwardEliminated ==
  (system_size % nprocs = 0
     /\ \E k \in Ranks : Past(k, "L95") /\ ~Past(k, "L165")) =>
    LET tu == ThomasU(system_size, rhs) IN
    /\ \A k \in Ranks : (Past(k, "L95") /\ ~Past(k, "L165")) =>
         u_local[k] = [i \in 0..(local_size - 1) |-> tu[k * local_size + i]]
    /\ (\A k \in Ranks : Past(k, "L95") /\ ~Past(k, "L165")) => GlobalU = tu

C12_Witness ==
  /\ nprocs = 3 /\ local_size = 1
  /\ \A k \in Ranks : pc[k] = "L99"
  /\ \A g \in 0..(system_size - 1) : rhs[g] = One

\* forward elimination of one block from its own beta and r alone
OwnForward(beta, rl, ls) ==
  LET f[i \in 0..(ls - 1)] ==
        IF i = 0 THEN RMul(beta[0], rl[0])
        ELSE RMul(beta[i], RSub(rl[i], RMul(W, f[i - 1])))
  IN  [i \in 0..(ls - 1) |-> f[i]]

\* back substitution of one block from its own u and gam alone
OwnBackward(u, gam, ls) ==
  LET f[i \in 0..(ls - 1)] ==
        IF i = ls - 1 THEN u[ls - 1]
        ELSE RSub(u[i], RMul(gam[i + 1], f[i + 1]))
  IN  [i \in 0..(ls - 1) |-> f[i]]

\* C13: while phi_local/psi_local hold the forward sweep, rank 0's seed is
\* (0, 1); while they hold the backward sweep, the last rank's seed is
\* (0, 1); rank 0's u_local is a function of its own beta_local and r_local
\* alone, and the last rank's x_local a function of its own u_local and
\* gam_local alone, whatever the other workers hold and gather.
C13_BoundarySeeds ==
  system_size % nprocs = 0 =>
    LET last == nprocs - 1 IN
    /\ (Past(0, "L47") /\ ~Past(0, "L108")) =>
         phi_local[0][0] = Zero /\ psi_local[0][0] = One
    /\ (Past(last, "L108") /\ ~Past(last, "L165")) =>
         /\ phi_local[last][local_size - 1] = Zero
         /\ psi_local[last][local_size - 1] = One
    /\ (Past(0, "L95") /\ ~Past(0, "L165")) =>
         u_local[0] = OwnForward(beta_local[0], r_local[0], local_size)
    /\ (Past(last, "L158") /\ ~Past(last, "L165")) =>
         x_local[last] = OwnBackward(u_local[last], gam_local[last], local_size)

C13_Witness ==
  /\ nprocs = 3 /\ local_size = 2
  /\ \A k \in Ranks : pc[k] = "L163"
  /\ \A g \in 0..(system_size - 1) : rhs[g] = <<g - 1, 1>>

RECURSIVE SumTo(_, _)
SumTo(f, n) == IF n < 0 THEN 0 ELSE f[n] + SumTo(f, n - 1)

\* C14: under fair scheduling every worker eventually returns from
\* precompute_beta_gam, buffered or synchronous send alike; rank 0 never
\* receives, the last rank never sends, a rank k > 0 receives exactly one
\* message, which is the last beta of rank k-1, P-1 messages are sent in
\* all, and none is in flight once every worker has returned.
C14_PipelineMessages ==
  /\ [](\A k \in Ranks :
          /\ recvd[0] = 0 /\ sent[nprocs - 1] = 0
          /\ sent[k] <= 1 /\ recvd[k] <= 1 /\ Len(chan[k]) <= 1
          /\ (k > 0 /\ recvd[k] = 1) =>
               last_beta[k] = beta_local[k - 1][local_size - 1]
          /\ PreReturned(k) =>
               /\ sent[k] = (IF k < nprocs - 1 THEN 1 ELSE 0)
               /\ recvd[k] = (IF k > 0 THEN 1 ELSE 0))
  /\ []((\A k \in Ranks : PreReturned(k)) =>
          /\ SumTo(sent, nprocs - 1) = nprocs - 1
          /\ \A k \in Ranks : chan[k] = <<>>)
  /\ <>(\A k \in Ranks : PreReturned(k))

\* three workers have all returned, after two hand-offs
C14_Witness ==
  /\ nprocs = 3 /\ local_size = 2
  /\ \A k \in Ranks : PreReturned(k)
  /\ recvd[1] = 1 /\ recvd[2] = 1 /\ sent[0] = 1 /\ sent[1] = 1

\* rank j has called the collective at site
Reached(j, site) == Past(j, site) \/ (pc[j] = site /\ inColl[j])

C16_StallPropagation ==
  /\ [](\A j \in Ranks : (lostTo > 0 /\ j >= lostTo) =>
          /\ \A i \in 0..(local_size - 1) :
               ~IsDef(beta_local[j][i]) /\ ~IsDef(gam_local[j][i])
          /\ pc[j] = "L188")
  /\ <>(\A j \in Ranks : j < lostTo - 1 =>
          /\ PreReturned(j)
          /\ \A i \in 0..(local_size - 1) :
               IsDef(beta_local[j][i]) /\ IsDef(gam_local[j][i]))

\* the message to rank 2 is in flight for ever; rank 0 has completed
C16_Witness ==
  /\ nprocs = 3 /\ lostTo = 2 /\ local_size = 2
  /\ chan[2] # <<>>
  /\ PreReturned(0) /\ Written(0) = local_size
  /\ pc[2] = "L188" /\ Written(2) = 0

\* C17: when a successful solve has returned, the worker holds none of the
\* eight scratch buffers the call allocated: its count of live heap blocks
\* is what it was before the call.
C17_ScratchReleased ==
  \A k \in Ranks : pc[k] = "done" =>
    /\ live[k] = 0
    /\ u_local[k] = <<>> /\ phi_local[k] = <<>> /\ psi_local[k] = <<>>
    /\ phi_lasts[k] = <<>> /\ psi_lasts[k] = <<>>
    /\ phi_firsts[k] = <<>> /\ psi_firsts[k] = <<>> /\ gam_firsts[k] = <<>>

\* rank k is inside nonperiodic_tridiagonal_solver
InSolver(k) == PosOf(pc[k]) >= 1 /\ pc[k] # "done"

\* C18: no step of a worker inside the solver changes its beta_local,
\* gam_local or r_local; and the one value the solver reads from x_local
\* (line 132) is the value it has itself just written there (line 131), so
\* what the caller left in x_local reaches neither x_tilda nor x_last.
C18_InputsReadOnly ==
  /\ [][\A k \in Ranks : InSolver(k) =>
          /\ beta_local'[k] = beta_local[k]
          /\ gam_local'[k] = gam_local[k]
          /\ r_local'[k] = r_local[k]]_vars
  /\ [](\A k \in Ranks :
          (Past(k, "L129") /\ ~Past(k, "L165")) =>
            /\ k = nprocs - 1 =>
                 /\ x_tilda[k] = u_local[k][local_size - 1]
                 /\ x_last[k] = u_local[k][local_size - 1]
                 /\ x_local[k][local_size - 1] = u_local[k][local_size - 1]
            /\ \A i \in 0..(local_size - 1) :
                 x_tilda[k] # Prefill(nprocs, system_size)[k][i]
                   /\ x_last[k] # Prefill(nprocs, system_size)[k][i])

C18_Witness ==
  /\ nprocs = 3 /\ local_size = 2
  /\ \A k \in Ranks : pc[k] = "L163"
  /\ \A k \in Ranks : \A i \in 0..(local_size - 1) :
       x_local[k][i] # Prefill(nprocs, system_size)[k][i]
  /\ \A g \in 0..(system_size - 1) : rhs[g] = One

\* C19: for every system_size that is a multiple of the worker count, 0
\* included, every index a statement uses into a per-unknown array lies in
\* [0, system_size/P) and every index into a per-worker vector in [0, P).
C19_IndexSafety ==
  system_size % nprocs = 0 => \A k \in Ranks : IndexSafe(k)

\* C20: once rank k > 0 has resolved and rank k-1 has combined, u_tilda of
\* rank k is the last u_local of rank k-1; once rank k < P-1 has resolved and
\* rank k+1 has combined, x_tilda of rank k is the first x_local of rank
\* k+1; and the workers past the same allgather or broadcast hold one and
\* the same gathered vector, one and the same broadcast scalar.
C20_CouplingConsistency ==
  system_size % nprocs = 0 =>
    /\ \A k \in Ranks :
         (k > 0 /\ Past(k, "L79") /\ Past(k - 1, "L95") /\ ~Past(k - 1, "L165"))
           => u_tilda[k] = u_local[k - 1][local_size - 1]
    /\ \A k \in Ranks :
         (k < nprocs - 1 /\ Past(k, "L138") /\ Past(k + 1, "L158"))
           => x_tilda[k] = x_local[k + 1][0]
    /\ Cardinality({phi_lasts[k] : k \in
         {j \in Ranks : Past(j, "L64") /\ ~Past(j, "L165")}}) <= 1
    /\ Cardinality({psi_lasts[k] : k \in
         {j \in Ranks : Past(j, "L67") /\ ~Past(j, "L165")}}) <= 1
    /\ Cardinality({u_first[k] : k \in {j \in Ranks : Past(j, "L77")}}) <= 1
    /\ Cardinality({gam_firsts[k] : k \in {j \in Ranks : Past(j, "L106")}}) <= 1
    /\ Cardinality({phi_firsts[k] : k \in {j \in Ranks : Past(j, "L126")}}) <= 1
    /\ Cardinality({psi_firsts[k] : k \in {j \in Ranks : Past(j, "L127")}}) <= 1
    /\ Cardinality({x_last[k] : k \in {j \in Ranks : Past(j, "L136")}}) <= 1

C20_Witness ==
  /\ nprocs = 3 /\ local_size = 2
  /\ \A k \in Ranks : pc[k] = "L163"
  /\ \A g \in 0..(system_size - 1) : rhs[g] = <<g - 1, 1>>
  /\ u_tilda[1] # u_tilda[2]
  /\ x_tilda[0] # x_tilda[1]

=============================================================================
